---- MODULE Spec2Model ----
(***************************************************************************)
(* Polybot: the copy-trade synchronisation engine.                         *)
(*                                                                         *)
(*   tracker.py           Tracker: fetch, parse, watermark filter          *)
(*   db.py                the ledger: positions and processed_trades       *)
(*   position_manager.py  record_entry / record_exit / mark_processed      *)
(*   main.py              the poll loop and the per-trade decision table   *)
(*                                                                         *)
(* A datetime is [t, aware]: t is the instant, aware tells whether the     *)
(* value carries a UTC offset.  Python refuses to order an offset-aware    *)
(* datetime against a naive one (TypeError); the operators below raise in  *)
(* exactly the places where the code compares two datetimes.               *)
(*                                                                         *)
(* A float (price, amount) is an exact fraction [n, d] in lowest terms.    *)
(***************************************************************************)
EXTENDS Integers, Sequences, FiniteSets, TLC

\* ---------------------------------------------------------------- bounds
MaxTime == 3
\* Records of the target's activity: in the whole-program specification, and in
\* the specifications of one process lifetime and of the Tracker alone.
MaxTrades == 2
MaxBatch == 3
\* Executor calls counted per trade; a second call already breaks "at most once".
MaxAttempts == 2
\* Position rows in the specification of the PositionManager alone.
MaxPositions == 2

\* ---------------------------------------------------------------- values
\* Python's None where a datetime is expected, and a feed record's absent
\* timestamp field: datetime-shaped, at instants no datetime has.
None == [t |-> 0, aware |-> FALSE]
Missing == [t |-> 0, aware |-> TRUE]

\* The outcome of _fetch_activity: it raised (timeout, connection error,
\* non-2xx status, an exception out of _parse_trade), or the parsed trades.
FetchError == [ok |-> FALSE, trades |-> <<>>]

BUY == "BUY"
SELL == "SELL"
TradeSide == {BUY, SELL}
Tokens == {"T1", "T2"}

Instants == 1..MaxTime
DateTimes == [t : Instants, aware : BOOLEAN]

\* datetime.utcnow(): the wall clock as a naive datetime.
utcnow(clock) == [t |-> clock, aware |-> FALSE]

\* The "timestamp"/"createdAt" field of a feed record: absent, or an ISO
\* string with ("Z", "+00:00") or without an offset.
RawTimestamps == {Missing} \cup DateTimes

\* The same field holding a string that is no ISO date (fromisoformat raises
\* ValueError), and holding a JSON number such as epoch seconds (.replace
\* raises AttributeError).
BadIso == [t |-> -1, aware |-> FALSE]
EpochNumber == [t |-> -1, aware |-> TRUE]

\* The "side" field: "BUY", "SELL", another string, absent (read as ""), or a
\* JSON value that is no string (.upper raises AttributeError).
OtherSide == "HOLD"
NoSide == ""
NotAString == "null"

\* Fractions: n/d with d > 0, in lowest terms.
RECURSIVE GCD(_, _)
GCD(a, b) == IF b = 0 THEN a ELSE GCD(b, a % b)

Abs(x) == IF x < 0 THEN -x ELSE x

Ratio(n, d) ==
    LET g == GCD(Abs(n), d)
    IN [n |-> n \div g, d |-> d \div g]

Zero == Ratio(0, 1)

\* a / b on floats, b > 0.
Quotient(a, b) == Ratio(a.n * b.d, a.d * b.n)

\* A numeric field of a feed record ("price"): a number, absent, a string that
\* is no number, or null.
NumberField(x) == [kind |-> "number", x |-> x]
AbsentField == [kind |-> "absent", x |-> Zero]
TextField == [kind |-> "text", x |-> Zero]
NullField == [kind |-> "null", x |-> Zero]

\* config.trade_amount (TRADE_AMOUNT, default "10"), in USDC.
trade_amount == 10

\* ---------------------------------------------------------------- state
VARIABLES
    activity,             \* the venue's append-only activity of the target: Seq of raw records
    now,                  \* the local wall clock
    pc,                   \* where main() is
    running,              \* main.running
    last_seen_timestamp,  \* Tracker.last_seen_timestamp
    new_trades,           \* the part of the batch the for loop has not reached yet
    pending,              \* the trade in flight and the ledger writes it still owes
    positions,            \* table positions, in id order
    processed_trades,     \* table processed_trades
    execCalls,            \* history: trade_id -> number of executor.buy/sell invocations
    call,                 \* history: the last Tracker call
    cycle,                \* history: what the current poll cycle fetched and did
    op                    \* history: the last PositionManager call made from outside the loop

vars == <<activity, now, pc, running, last_seen_timestamp, new_trades, pending,
          positions, processed_trades, execCalls, call, cycle, op>>

\* ---------------------------------------------------------------- helpers
SeqToSet(s) == {s[i] : i \in 1..Len(s)}

\* The sequences that list each member of a subset of S once, in any order.
Arrangements(S) ==
    UNION {{s \in [1..Cardinality(T) -> T] : SeqToSet(s) = T} : T \in SUBSET S}

RECURSIVE SelectSeqBy(_, _)
SelectSeqBy(s, keep) ==
    IF s = <<>> THEN <<>>
    ELSE IF Head(s) \in keep
         THEN <<Head(s)>> \o SelectSeqBy(Tail(s), keep)
         ELSE SelectSeqBy(Tail(s), keep)

\* ---------------------------------------------------------------- tracker.py
\* A TRADE record of the feed as the venue writes it: an id, a side, a token, a
\* timestamp and a price, all present and well-formed.
DefaultPrice == Ratio(1, 4)

Record(side, token_id, timestamp) ==
    [has_id |-> TRUE, side |-> side, token_id |-> token_id,
     timestamp |-> timestamp, price |-> NumberField(DefaultPrice)]

\* No Trade (Python's None where a Trade is expected).
NoTrade ==
    [trade_id |-> 0, token_id |-> "", side |-> "", price |-> Zero,
     timestamp |-> None]

\* float(item.get("price", 0)): ValueError on a string that is no number,
\* TypeError on null, 0.0 for an absent field.
float_raises(field) == field.kind \in {"text", "null"}
float_of(field) == field.x

\* Tracker._parse_trade, statement by statement: [raised, trade].  It catches
\* KeyError, ValueError and TypeError and returns None (NoTrade); anything else
\* (AttributeError) leaves the function.  A record without a timestamp gets
\* datetime.utcnow(), one without an id the trade_id "" (0 here), and any side
\* other than "BUY" is a SELL.
parse_trade(id, item, clock) ==
    IF item.timestamp = EpochNumber THEN [raised |-> TRUE, trade |-> NoTrade]
    ELSE IF item.timestamp = BadIso THEN [raised |-> FALSE, trade |-> NoTrade]
    ELSE IF item.side = NotAString THEN [raised |-> TRUE, trade |-> NoTrade]
    ELSE IF float_raises(item.price) THEN [raised |-> FALSE, trade |-> NoTrade]
    ELSE [raised |-> FALSE,
          trade  |-> [trade_id  |-> IF item.has_id THEN id ELSE 0,
                      token_id  |-> item.token_id,
                      side      |-> IF item.side = BUY THEN BUY ELSE SELL,
                      price     |-> float_of(item.price),
                      timestamp |-> IF item.timestamp = Missing THEN utcnow(clock)
                                    ELSE item.timestamp]]

\* `if trade: trades.append(trade)` over the parsed records.
RECURSIVE ParsedTrades(_)
ParsedTrades(parsed) ==
    IF parsed = <<>> THEN <<>>
    ELSE IF Head(parsed).trade = NoTrade THEN ParsedTrades(Tail(parsed))
         ELSE <<Head(parsed).trade>> \o ParsedTrades(Tail(parsed))

\* Tracker._fetch_activity on a 2xx response that lists the records `ids` of
\* the activity in that order (all of type TRADE): [ok, trades], FetchError
\* when _parse_trade let an exception through.
fetch_activity(act, ids, clock) ==
    LET parsed == [i \in 1..Len(ids) |-> parse_trade(ids[i], act[ids[i]], clock)]
    IN IF \E i \in 1..Len(ids) : parsed[i].raised
       THEN FetchError
       ELSE [ok |-> TRUE, trades |-> ParsedTrades(parsed)]

\* a > b on datetimes raises TypeError when only one of them is aware.
Comparable(a, b) == a.aware = b.aware

\* max(t.timestamp for t in trades) raises as soon as it meets both kinds.
MaxRaises(trades) ==
    \E i, j \in 1..Len(trades) :
        ~Comparable(trades[i].timestamp, trades[j].timestamp)

MaxTimestamp(trades) ==
    LET i == CHOOSE k \in 1..Len(trades) :
                 \A j \in 1..Len(trades) :
                     trades[j].timestamp.t <= trades[k].timestamp.t
    IN trades[i].timestamp

\* list.sort(key=lambda t: t.timestamp): stable, ascending.
RECURSIVE InsertByTimestamp(_, _)
InsertByTimestamp(x, s) ==
    IF s = <<>> THEN <<x>>
    ELSE IF x.timestamp.t < Head(s).timestamp.t
         THEN <<x>> \o s
         ELSE <<Head(s)>> \o InsertByTimestamp(x, Tail(s))

\* Mutant: the sort lost, the trades stay in the order of the feed response.
SortByTimestamp_FeedOrder(s) == s

RECURSIVE SortByTimestamp(_)
SortByTimestamp(s) ==
    IF s = <<>> THEN <<>>
    ELSE InsertByTimestamp(s[Len(s)], SortByTimestamp(SubSeq(s, 1, Len(s) - 1)))

\* Mutant: the watermark comparison lost, every fetched trade passes.
NewerThan_NoFilter(trades, wm) == trades

NewerThan(trades, wm) ==
    SelectSeqBy(trades, {x \in SeqToSet(trades) : x.timestamp.t > wm.t})

\* Tracker._filter_new_trades: [raised, ret, wm].
filter_new_trades(wm, trades) ==
    IF wm = None
    THEN IF trades = <<>>
         THEN [raised |-> FALSE, ret |-> <<>>, wm |-> wm]
         ELSE IF MaxRaises(trades)
              THEN [raised |-> TRUE, ret |-> <<>>, wm |-> wm]
              ELSE [raised |-> FALSE, ret |-> <<>>, wm |-> MaxTimestamp(trades)]
    ELSE IF \E i \in 1..Len(trades) : ~Comparable(trades[i].timestamp, wm)
         THEN [raised |-> TRUE, ret |-> <<>>, wm |-> wm]
         ELSE [raised |-> FALSE, ret |-> SortByTimestamp(NewerThan(trades, wm)),
               wm |-> wm]

\* Mutant: a failed fetch makes the Tracker forget its watermark.
get_new_trades_ForgetOnError(wm, fetched) ==
    IF ~fetched.ok
    THEN [ret |-> <<>>, wm |-> None]
    ELSE LET f == filter_new_trades(wm, fetched.trades)
         IN IF f.raised THEN [ret |-> <<>>, wm |-> wm]
            ELSE IF f.ret # <<>>
                 THEN [ret |-> f.ret, wm |-> MaxTimestamp(f.ret)]
                 ELSE [ret |-> <<>>, wm |-> f.wm]

\* Mutant: the watermark moved to the oldest emitted trade instead of the newest.
get_new_trades_Oldest(wm, fetched) ==
    IF ~fetched.ok
    THEN [ret |-> <<>>, wm |-> wm]
    ELSE LET f == filter_new_trades(wm, fetched.trades)
         IN IF f.raised THEN [ret |-> <<>>, wm |-> wm]
            ELSE IF f.ret # <<>>
                 THEN [ret |-> f.ret, wm |-> f.ret[1].timestamp]
                 ELSE [ret |-> <<>>, wm |-> f.wm]

\* Tracker.get_new_trades on the outcome of the fetch (FetchError, or the parsed
\* trades): [ret, wm].  Whatever is raised inside is caught and turned into [].
get_new_trades(wm, fetched) ==
    IF ~fetched.ok
    THEN [ret |-> <<>>, wm |-> wm]
    ELSE LET f == filter_new_trades(wm, fetched.trades)
         IN IF f.raised THEN [ret |-> <<>>, wm |-> wm]
            ELSE IF f.ret # <<>>
                 THEN [ret |-> f.ret, wm |-> MaxTimestamp(f.ret)]
                 ELSE [ret |-> <<>>, wm |-> f.wm]

\* Tracker.set_last_seen
set_last_seen(timestamp) == timestamp

\* ---------------------------------------------------------------- db.py
\* is_trade_processed: SELECT 1 FROM processed_trades WHERE trade_id = ?
is_trade_processed(pt, trade_id) == \E m \in pt : m.trade_id = trade_id

\* Mutant: INSERT OR REPLACE, a second marker takes the place of the first.
mark_trade_processed_Replace(pt, trade_id, clock) ==
    {m \in pt : m.trade_id # trade_id}
        \cup {[trade_id |-> trade_id, processed_at |-> utcnow(clock)]}

\* mark_trade_processed: INSERT OR IGNORE ... VALUES (trade_id, utcnow()); commit.
mark_trade_processed(pt, trade_id, clock) ==
    IF is_trade_processed(pt, trade_id) THEN pt
    ELSE pt \cup {[trade_id |-> trade_id, processed_at |-> utcnow(clock)]}

\* get_last_processed_trade: ORDER BY processed_at DESC LIMIT 1; no row gives
\* a ProcessedTrade-shaped None.
NoProcessedTrade == [trade_id |-> 0, processed_at |-> None]

get_last_processed_trade(pt) ==
    IF pt = {} THEN NoProcessedTrade
    ELSE CHOOSE m \in pt : \A o \in pt : o.processed_at.t <= m.processed_at.t

\* save_position: INSERT INTO positions; the store assigns the next id.
save_position(pos, position) == Append(pos, position)

\* Mutant: the query without `AND closed_at IS NULL`.
get_position_by_token_AnyRow(pos, token_id) ==
    LET rows == {i \in 1..Len(pos) : pos[i].token_id = token_id}
    IN IF rows = {} THEN 0 ELSE CHOOSE i \in rows : \A j \in rows : i <= j

\* get_position_by_token: the id of the first open row of the token (the table
\* is scanned in id order), 0 for no row.
get_position_by_token(pos, token_id) ==
    LET open == {i \in 1..Len(pos) :
                    pos[i].token_id = token_id /\ pos[i].closed_at = None}
    IN IF open = {} THEN 0 ELSE CHOOSE i \in open : \A j \in open : i <= j

\* close_position: UPDATE positions SET closed_at = utcnow() WHERE id = ?
close_position(pos, position_id, clock) ==
    [pos EXCEPT ![position_id].closed_at = utcnow(clock)]

\* ---------------------------------------------------------------- position_manager.py
\* Mutant: the size is the product of amount and price.
position_size_Product(amount, entry_price) ==
    IF entry_price.n > 0
    THEN Ratio(amount.n * entry_price.n, amount.d * entry_price.d)
    ELSE Zero

\* size = amount / entry_price if entry_price > 0 else 0
position_size(amount, entry_price) ==
    IF entry_price.n > 0 THEN Quotient(amount, entry_price) ELSE Zero

\* The Position that record_entry(trade, amount, entry_price) builds.
NewPosition(trade, amount, entry_price) ==
    [token_id |-> trade.token_id, side |-> trade.side,
     amount |-> position_size(amount, entry_price),
     entry_price |-> entry_price, closed_at |-> None]

\* Each ledger write commits on its own, so record_entry and record_exit are
\* two durable steps each; a trade in flight carries the arguments of
\* record_entry and the writes it still owes.
SavePosition == "save_position"
ClosePosition == "close_position"
MarkProcessed == "mark_trade_processed"

record_entry_writes == <<SavePosition, MarkProcessed>>
record_exit_writes == <<ClosePosition, MarkProcessed>>
mark_processed_writes == <<MarkProcessed>>

NoPending ==
    [trade |-> NoTrade, amount |-> Zero, entry_price |-> Zero, writes |-> <<>>]

\* Mutant: record_exit writes the marker also when it found nothing to close.
ledger_write_MarkAnyway(pos, pt, pend, clock) ==
    LET w == Head(pend.writes)
        trade == pend.trade
        id == get_position_by_token(pos, trade.token_id)
    IN CASE w = SavePosition ->
              [positions |-> save_position(pos, NewPosition(trade, pend.amount,
                                                            pend.entry_price)),
               processed |-> pt, writes |-> Tail(pend.writes)]
         [] w = ClosePosition ->
              [positions |-> IF id = 0 THEN pos ELSE close_position(pos, id, clock),
               processed |-> pt, writes |-> Tail(pend.writes)]
         [] w = MarkProcessed ->
              [positions |-> pos,
               processed |-> mark_trade_processed(pt, trade.trade_id, clock),
               writes |-> Tail(pend.writes)]

\* One committed write of the trade in flight: [positions, processed, writes].
\* record_exit looks the open position up again and returns False, writing
\* nothing more, when there is none.
ledger_write(pos, pt, pend, clock) ==
    LET w == Head(pend.writes)
        trade == pend.trade
    IN CASE w = SavePosition ->
              [positions |-> save_position(pos, NewPosition(trade, pend.amount,
                                                            pend.entry_price)),
               processed |-> pt, writes |-> Tail(pend.writes)]
         [] w = ClosePosition ->
              LET id == get_position_by_token(pos, trade.token_id)
              IN IF id = 0
                 THEN [positions |-> pos, processed |-> pt, writes |-> <<>>]
                 ELSE [positions |-> close_position(pos, id, clock),
                       processed |-> pt, writes |-> Tail(pend.writes)]
         [] w = MarkProcessed ->
              [positions |-> pos,
               processed |-> mark_trade_processed(pt, trade.trade_id, clock),
               writes |-> Tail(pend.writes)]

\* ---------------------------------------------------------------- main.py
\* Mutant: a failed copy, or a SELL with nothing to close, leaves no marker.
decide_NoMarkUnlessCopied(pos, pt, trade, order_ok) ==
    IF is_trade_processed(pt, trade.trade_id)
    THEN [executed |-> FALSE, writes |-> <<>>]
    ELSE IF trade.side = BUY
    THEN [executed |-> TRUE,
          writes |-> IF order_ok THEN record_entry_writes ELSE <<>>]
    ELSE IF get_position_by_token(pos, trade.token_id) # 0
    THEN [executed |-> TRUE,
          writes |-> IF order_ok THEN record_exit_writes ELSE <<>>]
    ELSE [executed |-> FALSE, writes |-> <<>>]

\* Mutant: a BUY whose order failed is recorded as an entry all the same.
decide_EntryOnFailure(pos, pt, trade, order_ok) ==
    IF is_trade_processed(pt, trade.trade_id)
    THEN [executed |-> FALSE, writes |-> <<>>]
    ELSE IF trade.side = BUY
    THEN [executed |-> TRUE, writes |-> record_entry_writes]
    ELSE IF get_position_by_token(pos, trade.token_id) # 0
    THEN [executed |-> TRUE,
          writes |-> IF order_ok THEN record_exit_writes ELSE mark_processed_writes]
    ELSE [executed |-> FALSE, writes |-> mark_processed_writes]

\* The branch of the per-trade decision table (main.py 88-127) and the ledger
\* writes it calls for; order_ok tells whether the Execution Adapter returned
\* an order id.  [executed, writes].
decide(pos, pt, trade, order_ok) ==
    IF is_trade_processed(pt, trade.trade_id)
    THEN [executed |-> FALSE, writes |-> <<>>]
    ELSE IF trade.side = BUY
    THEN [executed |-> TRUE,
          writes |-> IF order_ok THEN record_entry_writes ELSE mark_processed_writes]
    ELSE IF get_position_by_token(pos, trade.token_id) # 0
    THEN [executed |-> TRUE,
          writes |-> IF order_ok THEN record_exit_writes ELSE mark_processed_writes]
    ELSE [executed |-> FALSE, writes |-> mark_processed_writes]

\* The ledger after the loop body has run to its end on one trade without a
\* store error: [positions, processed].
RECURSIVE apply_writes(_, _, _, _)
apply_writes(pos, pt, pend, clock) ==
    IF pend.writes = <<>> THEN [positions |-> pos, processed |-> pt]
    ELSE LET w == ledger_write(pos, pt, pend, clock)
         IN apply_writes(w.positions, w.processed,
                         [pend EXCEPT !.writes = w.writes], clock)

\* PositionManager.record_entry, run to its end: the id of the new position
\* and the ledger.
record_entry(pos, pt, trade, amount, entry_price, clock) ==
    LET done == apply_writes(pos, pt,
                             [trade |-> trade, amount |-> amount,
                              entry_price |-> entry_price,
                              writes |-> record_entry_writes], clock)
    IN [position_id |-> Len(done.positions),
        positions |-> done.positions, processed |-> done.processed]

\* PositionManager.record_exit, run to its end: whether a position was closed
\* (the return value) and the ledger.
record_exit(pos, pt, trade, clock) ==
    LET done == apply_writes(pos, pt,
                             [trade |-> trade, amount |-> Zero,
                              entry_price |-> Zero,
                              writes |-> record_exit_writes], clock)
    IN [closed |-> get_position_by_token(pos, trade.token_id) # 0,
        positions |-> done.positions, processed |-> done.processed]

\* What main() hands to the ledger for a trade: record_entry(trade,
\* config.trade_amount, trade.price), record_exit(trade) or
\* mark_processed(trade.trade_id).
Owed(trade, writes) ==
    [trade |-> trade, amount |-> Ratio(trade_amount, 1),
     entry_price |-> trade.price, writes |-> writes]

\* Mutant: config.trade_amount is passed to sell as well.
order_size_TradeAmount(pos, trade) == Ratio(trade_amount, 1)

\* The size main() passes to the Execution Adapter: config.trade_amount (USDC)
\* to buy, position.amount of the position get_position found to sell.
order_size(pos, trade) ==
    IF trade.side = BUY THEN Ratio(trade_amount, 1)
    ELSE pos[get_position_by_token(pos, trade.token_id)].amount

per_trade(pos, pt, trade, order_ok, clock) ==
    apply_writes(pos, pt, Owed(trade, decide(pos, pt, trade, order_ok).writes),
                 clock)

\* ---------------------------------------------------------------- history
\* The Tracker since its construction: "new", "seeded" (set_last_seen was
\* called), "polled" (get_new_trades has just returned; then the record holds
\* that call: whether it was the first, the watermark before it, what the fetch
\* gave, what was returned) or "idle" (between two calls); and the trade_ids
\* that its earlier calls returned.
TradeIds(trades) == {trades[i].trade_id : i \in 1..Len(trades)}

NewTracker ==
    [kind |-> "new", first |-> FALSE, seeded |-> FALSE,
     before |-> None, fetched |-> FetchError, ret |-> <<>>, emitted |-> {}]

SeededTracker == [NewTracker EXCEPT !.kind = "seeded"]
IdleTracker == [NewTracker EXCEPT !.kind = "idle"]

Polled(c, wm, fetched, ret) ==
    [kind |-> "polled", first |-> c.kind \in {"new", "seeded"},
     seeded |-> c.kind = "seeded",
     before |-> wm, fetched |-> fetched, ret |-> ret, emitted |-> c.emitted]

\* The poll cycle in progress: whether its fetch failed in transport, the
\* tokens that had a position when the batch was fetched, the trade_ids in the order of the feed response (kept when it
\* gave a batch), the batch get_new_trades returned, the trade_ids of the batch that had no marker then,
\* and the trades the Execution Adapter was called for, in order, each with
\* the size passed and the outcome.  Forgotten when the cycle ends.
HeldTokens(pos) == {pos[i].token_id : i \in 1..Len(pos)}

NoCycle ==
    [failed |-> FALSE, prior |-> {}, response |-> <<>>, batch |-> <<>>,
     fresh |-> {}, copied |-> <<>>]

StartCycle(pos, pt, resp, batch) ==
    [failed |-> ~resp.ok,
     prior |-> HeldTokens(pos),
     response |-> IF batch = <<>> THEN <<>> ELSE resp.ids,
     batch |-> batch,
     fresh |-> {batch[i].trade_id : i \in 1..Len(batch)}
                  \ {m.trade_id : m \in pt},
     copied |-> <<>>]

\* A PositionManager call made on its own: the method, its arguments, what it
\* returned (the position id of record_entry, the boolean of record_exit) and
\* the ledger it was made on.
NoOp ==
    [name |-> "", trade |-> NoTrade, amount |-> Zero, entry_price |-> Zero,
     position_id |-> 0, closed |-> FALSE,
     before |-> [positions |-> <<>>, processed |-> {}]]

\* One more call of the Execution Adapter for a trade, counted up to MaxAttempts.
Attempted(calls, trade_id) ==
    [calls EXCEPT ![trade_id] = IF @ < MaxAttempts THEN @ + 1 ELSE @]

\* ---------------------------------------------------------------- environment
\* The target account trades: the venue appends a record to its activity.
TargetTrades(limit, side, token_id, timestamp) ==
    /\ Len(activity) < limit
    /\ pc \in {"poll", "down", "stopped"}
    /\ activity' = Append(activity, Record(side, token_id, timestamp))
    /\ UNCHANGED <<now, pc, running, last_seen_timestamp, new_trades, pending,
                   positions, processed_trades, execCalls, call, cycle, op>>

\* Time passes.
Tick ==
    /\ now < MaxTime
    /\ now' = now + 1
    /\ UNCHANGED <<activity, pc, running, last_seen_timestamp, new_trades, pending,
                   positions, processed_trades, execCalls, call, cycle, op>>

\* What one GET /activity can answer: a transport failure, or any of the
\* target's records in any order (the feed has no cursor and no delivery
\* guarantee, and re-delivers old records).
Responses ==
    {[ok |-> FALSE, ids |-> <<>>]}
        \cup {[ok |-> TRUE, ids |-> ids] : ids \in Arrangements(1..Len(activity))}

Fetched(resp) ==
    IF resp.ok THEN fetch_activity(activity, resp.ids, now) ELSE FetchError

\* ---------------------------------------------------------------- main.py: the loop
Up == pc \in {"poll", "trade", "ledger"}

\* main(), from the top to the loop, on the store as the last run left it.
\* Bringing the process back takes time.
Startup ==
    /\ pc \in {"down", "stopped"}
    /\ now < MaxTime
    /\ now' = now + 1
    /\ pc' = "poll"
    /\ running' = TRUE
    /\ LET last_processed == get_last_processed_trade(processed_trades)
       IN IF last_processed # NoProcessedTrade
          THEN last_seen_timestamp' = set_last_seen(last_processed.processed_at)
          ELSE last_seen_timestamp' = None
    /\ new_trades' = <<>>
    /\ pending' = NoPending
    /\ cycle' = NoCycle
    /\ UNCHANGED <<activity, positions, processed_trades, execCalls, call, op>>

\* signal_handler
Signal ==
    /\ Up
    /\ running
    /\ running' = FALSE
    /\ UNCHANGED <<activity, now, pc, last_seen_timestamp, new_trades, pending,
                   positions, processed_trades, execCalls, call, cycle, op>>

\* `while running` found false: conn.close() and return.
Shutdown ==
    /\ pc = "poll"
    /\ ~running
    /\ pc' = "stopped"
    /\ UNCHANGED <<activity, now, running, last_seen_timestamp, new_trades, pending,
                   positions, processed_trades, execCalls, call, cycle, op>>

\* Mutant: the loop head does not look at `running`.
Poll_IgnoreRunning(resp) ==
    /\ pc = "poll"
    /\ LET r == get_new_trades(last_seen_timestamp, Fetched(resp))
       IN /\ last_seen_timestamp' = r.wm
          /\ new_trades' = r.ret
          /\ cycle' = StartCycle(positions, processed_trades, resp, r.ret)
    /\ pc' = "trade"
    /\ UNCHANGED <<activity, now, running, pending, positions, processed_trades,
                   execCalls, call, op>>

\* A cycle begins: `while running` found true, then
\* new_trades = tracker.get_new_trades()
Poll(resp) ==
    /\ pc = "poll"
    /\ running
    /\ LET r == get_new_trades(last_seen_timestamp, Fetched(resp))
       IN /\ last_seen_timestamp' = r.wm
          /\ new_trades' = r.ret
          /\ cycle' = StartCycle(positions, processed_trades, resp, r.ret)
    /\ pc' = "trade"
    /\ UNCHANGED <<activity, now, running, pending, positions, processed_trades,
                   execCalls, call, op>>

\* One turn of `for trade in new_trades` up to the first ledger write: the
\* processed gate, the decision table and the call of the Execution Adapter.
Decide(order_ok) ==
    /\ pc = "trade"
    /\ new_trades # <<>>
    /\ LET trade == Head(new_trades)
           d == decide(positions, processed_trades, trade, order_ok)
       IN /\ execCalls' = IF d.executed THEN Attempted(execCalls, trade.trade_id)
                          ELSE execCalls
          /\ cycle' = IF d.executed
                      THEN [cycle EXCEPT !.copied =
                               Append(@, [trade |-> trade, ok |-> order_ok,
                                          size |-> order_size(positions, trade)])]
                      ELSE cycle
          /\ pending' = IF d.writes = <<>> THEN NoPending
                        ELSE Owed(trade, d.writes)
          /\ pc' = IF d.writes = <<>> THEN "trade" ELSE "ledger"
    /\ new_trades' = Tail(new_trades)
    /\ UNCHANGED <<activity, now, running, last_seen_timestamp, positions,
                   processed_trades, call, op>>

\* The next committed write of record_entry / record_exit / mark_processed.
LedgerWrite ==
    /\ pc = "ledger"
    /\ LET w == ledger_write(positions, processed_trades, pending, now)
       IN /\ positions' = w.positions
          /\ processed_trades' = w.processed
          /\ pending' = IF w.writes = <<>> THEN NoPending
                        ELSE [pending EXCEPT !.writes = w.writes]
          /\ pc' = IF w.writes = <<>> THEN "trade" ELSE "ledger"
    /\ UNCHANGED <<activity, now, running, last_seen_timestamp, new_trades,
                   execCalls, call, cycle, op>>

\* The batch is done: time.sleep(config.poll_interval), back to `while running`.
Sleep ==
    /\ pc = "trade"
    /\ new_trades = <<>>
    /\ pc' = "poll"
    /\ cycle' = NoCycle
    /\ UNCHANGED <<activity, now, running, last_seen_timestamp, new_trades, pending,
                   positions, processed_trades, execCalls, call, op>>

\* Mutant: the error is not caught and ends main().
StoreError_Fatal ==
    /\ \/ pc = "trade" /\ new_trades # <<>>
       \/ pc = "ledger"
    /\ pc' = "stopped"
    /\ new_trades' = <<>>
    /\ pending' = NoPending
    /\ cycle' = NoCycle
    /\ UNCHANGED <<activity, now, running, last_seen_timestamp, positions,
                   processed_trades, execCalls, call, op>>

\* A store call raises (a read at the head of the loop body, or the write that
\* is due): `except Exception` logs, sleeps, and the rest of the batch is gone.
StoreError ==
    /\ \/ pc = "trade" /\ new_trades # <<>>
       \/ pc = "ledger"
    /\ pc' = "poll"
    /\ new_trades' = <<>>
    /\ pending' = NoPending
    /\ cycle' = NoCycle
    /\ UNCHANGED <<activity, now, running, last_seen_timestamp, positions,
                   processed_trades, execCalls, call, op>>

\* The process dies (kill -9, power loss): only the store survives.
Crash ==
    /\ Up
    /\ pc' = "down"
    /\ last_seen_timestamp' = None
    /\ new_trades' = <<>>
    /\ pending' = NoPending
    /\ cycle' = NoCycle
    /\ UNCHANGED <<activity, now, running, positions, processed_trades, execCalls,
                   call, op>>

Init ==
    /\ activity = <<>>
    /\ now = 1
    /\ pc = "poll"
    /\ running = TRUE
    /\ last_seen_timestamp = None
    /\ new_trades = <<>>
    /\ pending = NoPending
    /\ positions = <<>>
    /\ processed_trades = {}
    /\ execCalls = [i \in 1..MaxBatch |-> 0]
    /\ call = NewTracker
    /\ cycle = NoCycle
    /\ op = NoOp

\* The feed of the whole-program specification stamps its records without an
\* offset, or not at all: every datetime the loop then meets is naive.  (With
\* offsets in play a poll either goes as below or raises TypeError inside
\* get_new_trades, which the loop cannot tell from a failed fetch.)
NaiveTimestamps == {Missing} \cup {d \in DateTimes : ~d.aware}

Next ==
    \/ \E side \in TradeSide, token_id \in Tokens, timestamp \in NaiveTimestamps :
           TargetTrades(MaxTrades, side, token_id, timestamp)
    \/ Tick
    \/ Startup
    \/ Signal
    \/ Shutdown
    \/ \E resp \in Responses : Poll(resp)
    \/ \E order_ok \in BOOLEAN : Decide(order_ok)
    \/ LedgerWrite
    \/ Sleep
    \/ StoreError
    \/ Crash

Spec == Init /\ [][Next]_vars

\* One process lifetime that is neither killed nor signalled: the poll loop
\* alone, on a longer activity in a single token.
LoopNext ==
    \/ \E side \in TradeSide, timestamp \in NaiveTimestamps :
           TargetTrades(MaxBatch, side, "T1", timestamp)
    \/ Tick
    \/ \E resp \in Responses : Poll(resp)
    \/ \E order_ok \in BOOLEAN : Decide(order_ok)
    \/ LedgerWrite
    \/ Sleep
    \/ StoreError

LoopSpec == Init /\ [][LoopNext]_vars

\* The loop is sequential code that keeps running: each of its steps, once
\* due, is taken.  Nothing obliges the store to fail or the target to trade.
LoopFairness ==
    /\ WF_vars(\E resp \in Responses : Poll(resp))
    /\ WF_vars(\E order_ok \in BOOLEAN : Decide(order_ok))
    /\ WF_vars(LedgerWrite)
    /\ WF_vars(Sleep)

FairLoopSpec == LoopSpec /\ LoopFairness

\* One process lifetime with shutdown requests: the poll loop, store errors
\* and signals, up to the return of main().  Nothing kills the process.
RunNext ==
    \/ \E side \in TradeSide, token_id \in Tokens, timestamp \in NaiveTimestamps :
           TargetTrades(MaxTrades, side, token_id, timestamp)
    \/ Tick
    \/ Signal
    \/ Shutdown
    \/ \E resp \in Responses : Poll(resp)
    \/ \E order_ok \in BOOLEAN : Decide(order_ok)
    \/ LedgerWrite
    \/ Sleep
    \/ StoreError

RunSpec == Init /\ [][RunNext]_vars

\* As in LoopFairness, and `while running` found false leads to the return.
RunFairness ==
    /\ LoopFairness
    /\ WF_vars(Shutdown)

FairRunSpec == RunSpec /\ RunFairness

\* ---------------------------------------------------------------- the Tracker alone
\* One Tracker instance, driven as main() drives it: set_last_seen at most once,
\* before the first poll and with a processed_at (a naive utcnow() of the
\* past), then get_new_trades against responses of any content: a transport
\* failure, or up to MaxBatch records stamped in any way.
RawItems == {Record(BUY, "T1", timestamp) : timestamp \in RawTimestamps}

RawResponses == UNION {[1..n -> RawItems] : n \in 0..MaxBatch}

TrackerSeed(t) ==
    /\ call.kind = "new"
    /\ t <= now
    /\ last_seen_timestamp' = set_last_seen(utcnow(t))
    /\ call' = SeededTracker
    /\ UNCHANGED <<activity, now, pc, running, new_trades, pending, positions,
                   processed_trades, execCalls, cycle, op>>

TrackerPoll(ok, items) ==
    /\ call.kind # "polled"
    /\ LET fetched == IF ok
                      THEN fetch_activity(items, [i \in 1..Len(items) |-> i], now)
                      ELSE FetchError
           r == get_new_trades(last_seen_timestamp, fetched)
       IN /\ last_seen_timestamp' = r.wm
          /\ call' = Polled(call, last_seen_timestamp, fetched, r.ret)
    /\ UNCHANGED <<activity, now, pc, running, new_trades, pending, positions,
                   processed_trades, execCalls, cycle, op>>

\* The caller has taken the returned trades.
TrackerReturn ==
    /\ call.kind = "polled"
    /\ call' = [IdleTracker EXCEPT !.emitted = call.emitted \cup TradeIds(call.ret)]
    /\ UNCHANGED <<activity, now, pc, running, last_seen_timestamp, new_trades,
                   pending, positions, processed_trades, execCalls, cycle, op>>

TrackerNext ==
    \/ Tick
    \/ TrackerReturn
    \/ \E t \in Instants : TrackerSeed(t)
    \/ \E items \in RawResponses : TrackerPoll(TRUE, items)
    \/ TrackerPoll(FALSE, <<>>)

TrackerSpec == Init /\ [][TrackerNext]_vars

\* ---------------------------------------------------------------- the Tracker on malformed records
\* Well-formed TRADE records, and records with one field missing or invalid.
WellFormedRecords ==
    {Record(side, "T1", utcnow(t)) : side \in TradeSide, t \in 1..2}

FaultyRecords ==
    LET good == Record(BUY, "T1", utcnow(2))
    IN {[good EXCEPT !.has_id = FALSE]}
           \cup {[good EXCEPT !.side = x] : x \in {OtherSide, NoSide, NotAString}}
           \cup {[good EXCEPT !.timestamp = x] : x \in {Missing, BadIso, EpochNumber}}
           \cup {[good EXCEPT !.price = x] : x \in {AbsentField, TextField, NullField}}

FeedRecords == WellFormedRecords \cup FaultyRecords

\* The feed answers 2xx with up to MaxTrades TRADE records.
FeedResponds(items) ==
    /\ call.kind # "polled"
    /\ activity' = items
    /\ UNCHANGED <<now, pc, running, last_seen_timestamp, new_trades, pending,
                   positions, processed_trades, execCalls, call, cycle, op>>

ParseNext ==
    \/ Tick
    \/ TrackerReturn
    \/ \E t \in Instants : TrackerSeed(t)
    \/ \E items \in UNION {[1..n -> FeedRecords] : n \in 0..MaxTrades} :
           FeedResponds(items)
    \/ TrackerPoll(TRUE, activity)

ParseSpec == Init /\ [][ParseNext]_vars

\* ---------------------------------------------------------------- the Tracker on a feed that re-delivers
\* One Tracker instance polling the venue's append-only activity: every
\* GET /activity fails or lists any of the records so far, in any order, old
\* ones again and again.
TrackerFetch(resp) ==
    /\ call.kind # "polled"
    /\ LET fetched == Fetched(resp)
           r == get_new_trades(last_seen_timestamp, fetched)
       IN /\ last_seen_timestamp' = r.wm
          /\ call' = Polled(call, last_seen_timestamp, fetched, r.ret)
    /\ UNCHANGED <<activity, now, pc, running, new_trades, pending, positions,
                   processed_trades, execCalls, cycle, op>>

RedeliverNext ==
    \/ \E timestamp \in RawTimestamps : TargetTrades(MaxBatch, BUY, "T1", timestamp)
    \/ Tick
    \/ TrackerReturn
    \/ \E resp \in Responses : TrackerFetch(resp)

RedeliverSpec == Init /\ [][RedeliverNext]_vars

\* ---------------------------------------------------------------- the PositionManager alone
\* One PositionManager on one store, called directly: record_entry with a BUY
\* at any price, record_exit with a SELL and mark_processed with any trade, on
\* every ledger such calls can build.
Prices == {Ratio(1, 4), Ratio(2, 5), Zero, Ratio(-1, 4)}
Amounts == {Ratio(trade_amount, 1)}

LedgerTrades ==
    {[trade_id |-> id, token_id |-> token_id, side |-> side,
      price |-> DefaultPrice, timestamp |-> utcnow(1)] :
        id \in 1..MaxTrades, token_id \in Tokens, side \in TradeSide}

Before == [positions |-> positions, processed |-> processed_trades]

RecordEntry(trade, amount, entry_price) ==
    /\ op = NoOp
    /\ Len(positions) < MaxPositions
    /\ LET r == record_entry(positions, processed_trades, trade, amount,
                             entry_price, now)
       IN /\ positions' = r.positions
          /\ processed_trades' = r.processed
          /\ op' = [NoOp EXCEPT !.name = "record_entry", !.trade = trade,
                                !.amount = amount, !.entry_price = entry_price,
                                !.position_id = r.position_id, !.before = Before]
    /\ UNCHANGED <<activity, now, pc, running, last_seen_timestamp, new_trades,
                   pending, execCalls, call, cycle>>

RecordExit(trade) ==
    /\ op = NoOp
    /\ LET r == record_exit(positions, processed_trades, trade, now)
       IN /\ positions' = r.positions
          /\ processed_trades' = r.processed
          /\ op' = [NoOp EXCEPT !.name = "record_exit", !.trade = trade,
                                !.closed = r.closed, !.before = Before]
    /\ UNCHANGED <<activity, now, pc, running, last_seen_timestamp, new_trades,
                   pending, execCalls, call, cycle>>

MarkProcessedCall(trade) ==
    /\ op = NoOp
    /\ processed_trades' = mark_trade_processed(processed_trades, trade.trade_id, now)
    /\ op' = [NoOp EXCEPT !.name = "mark_processed", !.trade = trade,
                          !.before = Before]
    /\ UNCHANGED <<activity, now, pc, running, last_seen_timestamp, new_trades,
                   pending, positions, execCalls, call, cycle>>

\* The caller has taken the result.
LedgerReturn ==
    /\ op # NoOp
    /\ op' = NoOp
    /\ UNCHANGED <<activity, now, pc, running, last_seen_timestamp, new_trades,
                   pending, positions, processed_trades, execCalls, call, cycle>>

LedgerNext ==
    \/ Tick
    \/ LedgerReturn
    \/ \E trade \in LedgerTrades, amount \in Amounts, entry_price \in Prices :
           trade.side = BUY /\ RecordEntry(trade, amount, entry_price)
    \/ \E trade \in LedgerTrades : trade.side = SELL /\ RecordExit(trade)
    \/ \E trade \in LedgerTrades : MarkProcessedCall(trade)

LedgerSpec == Init /\ [][LedgerNext]_vars

\* ---------------------------------------------------------------- the PositionManager, write by write
\* record_entry and record_exit as main() calls them, one committed write at a
\* time: record_entry for a copied BUY and record_exit for a copied SELL whose
\* token has an open position, the trade having no marker (main.py 88-117).
\* Between two writes the store may raise or the process may die; `op` keeps
\* the call that was made.
EntryCall(trade) ==
    /\ Up
    /\ pc # "ledger"
    /\ Len(positions) < MaxPositions
    /\ ~is_trade_processed(processed_trades, trade.trade_id)
    /\ pending' = Owed(trade, record_entry_writes)
    /\ pc' = "ledger"
    /\ op' = [NoOp EXCEPT !.name = "record_entry", !.trade = trade,
                          !.amount = Ratio(trade_amount, 1),
                          !.entry_price = trade.price, !.before = Before]
    /\ UNCHANGED <<activity, now, running, last_seen_timestamp, new_trades,
                   positions, processed_trades, execCalls, call, cycle>>

ExitCall(trade) ==
    /\ Up
    /\ pc # "ledger"
    /\ ~is_trade_processed(processed_trades, trade.trade_id)
    /\ get_position_by_token(positions, trade.token_id) # 0
    /\ pending' = Owed(trade, record_exit_writes)
    /\ pc' = "ledger"
    /\ op' = [NoOp EXCEPT !.name = "record_exit", !.trade = trade,
                          !.before = Before]
    /\ UNCHANGED <<activity, now, running, last_seen_timestamp, new_trades,
                   positions, processed_trades, execCalls, call, cycle>>

CommitNext ==
    \/ Tick
    \/ Startup
    \/ \E trade \in LedgerTrades : trade.side = BUY /\ EntryCall(trade)
    \/ \E trade \in LedgerTrades : trade.side = SELL /\ ExitCall(trade)
    \/ LedgerWrite
    \/ StoreError
    \/ Crash

CommitSpec == Init /\ [][CommitNext]_vars

\* ================================================================ claims
\* What the claims say about one get_new_trades call, read off the history.
PolledCold == call.kind = "polled" /\ call.before = None
PolledSteady == call.kind = "polled" /\ call.before # None

Timestamps(trades) == {trades[i].timestamp : i \in 1..Len(trades)}

\* d is the latest of the timestamps of trades, as instants.
IsLatestOf(d, trades) ==
    /\ d \in Timestamps(trades)
    /\ \A e \in Timestamps(trades) : e.t <= d.t

Ascending(trades) ==
    \A i, j \in 1..Len(trades) :
        i < j => trades[i].timestamp.t <= trades[j].timestamp.t

\* ret lists, each once, exactly the fetched trades later than the instant of wm.
ExactlyTheNewer(ret, fetched, wm) ==
    /\ SeqToSet(ret) = {x \in SeqToSet(fetched) : x.timestamp.t > wm.t}
    /\ Len(ret) = Cardinality(SeqToSet(ret))

\* ---------------------------------------------------------------- C5
\* C5 (cold-start suppression), as claimed: a get_new_trades call made with the
\* watermark unset whose fetch yields N >= 1 parsed trades returns the empty
\* sequence and leaves the watermark at the latest timestamp among those trades.
C5_ColdStartSetsWatermark ==
    (PolledCold /\ call.fetched.ok /\ call.fetched.trades # <<>>)
        => /\ call.ret = <<>>
           /\ IsLatestOf(last_seen_timestamp, call.fetched.trades)

\* ---------------------------------------------------------------- C6
\* C6 (watermark monotonicity): in the lifetime of one Tracker, once the
\* watermark is set no step unsets it or moves it to an earlier instant.
C6_WatermarkMonotone ==
    [][last_seen_timestamp # None
          => /\ last_seen_timestamp' # None
             /\ last_seen_timestamp'.t >= last_seen_timestamp.t]_vars

\* C6's case: with the watermark set, a fetch re-delivered a record older than
\* the watermark together with a newer one, and the watermark advanced.
C6_Witness ==
    /\ PolledSteady
    /\ \E x \in SeqToSet(call.fetched.trades) : x.timestamp.t < call.before.t
    /\ call.ret # <<>>
    /\ last_seen_timestamp.t > call.before.t

\* ---------------------------------------------------------------- C7
\* C7 (steady-state emission), as claimed: a get_new_trades call made with the
\* watermark set whose fetch succeeds returns exactly the fetched trades whose
\* timestamp is later than the watermark, in ascending timestamp order.
C7_EmitsExactlyTheNewer ==
    (PolledSteady /\ call.fetched.ok)
        => /\ ExactlyTheNewer(call.ret, call.fetched.trades, call.before)
           /\ Ascending(call.ret)

\* ---------------------------------------------------------------- C8
\* C8 (steady-state watermark update): after a get_new_trades call made with the
\* watermark set, the watermark is the latest timestamp among the trades the
\* call emitted, and is what it was before when the call emitted nothing.
C8_WatermarkIsLatestEmitted ==
    PolledSteady
        => IF call.ret # <<>>
           THEN IsLatestOf(last_seen_timestamp, call.ret)
           ELSE last_seen_timestamp = call.before

\* C8's case: a steady-state call emitted trades of different timestamps.
C8_Witness ==
    /\ PolledSteady
    /\ Len(call.ret) >= 2
    /\ call.ret[1].timestamp.t < call.ret[Len(call.ret)].timestamp.t
    /\ last_seen_timestamp = call.ret[Len(call.ret)].timestamp

\* ---------------------------------------------------------------- C9
\* C9 (resume), as claimed: the first get_new_trades call of a Tracker that was
\* seeded with set_last_seen(t) emits no trade at or before t and emits every
\* fetched trade later than t.
C9_ResumeEmitsTheNewer ==
    (call.kind = "polled" /\ call.first /\ call.seeded)
        => /\ \A x \in SeqToSet(call.ret) : x.timestamp.t > call.before.t
           /\ \A x \in SeqToSet(call.fetched.trades) :
                  x.timestamp.t > call.before.t => x \in SeqToSet(call.ret)

\* ---------------------------------------------------------------- C1
OpenPositions(token_id) ==
    {i \in 1..Len(positions) :
        positions[i].token_id = token_id /\ positions[i].closed_at = None}

\* C1 (at most one open position), as claimed: in every reachable state the
\* ledger holds at most one position with closed_at = null for each token.
C1_AtMostOneOpenPosition ==
    \A token_id \in Tokens : Cardinality(OpenPositions(token_id)) <= 1

\* ---------------------------------------------------------------- C2
\* The trades the feed can hand to the loop, under any clock reading.
KnownTrades ==
    {parse_trade(i, activity[i], c).trade : i \in 1..Len(activity), c \in Instants}

\* C2 (idempotency): from every reachable ledger, for every trade and whatever
\* the Execution Adapter answers on either run, running the per-trade logic a
\* second time (now or later) leaves the ledger that the first run left.
C2_PerTradeIdempotent ==
    \A trade \in KnownTrades : \A ok1, ok2 \in BOOLEAN : \A later \in now..MaxTime :
        LET once == per_trade(positions, processed_trades, trade, ok1, now)
            twice == per_trade(once.positions, once.processed, trade, ok2, later)
        IN twice = once

\* C2's case: the loop is about to run the per-trade logic on a trade that it
\* has already processed, with a position in the ledger.
C2_Witness ==
    /\ pc = "trade"
    /\ new_trades # <<>>
    /\ is_trade_processed(processed_trades, Head(new_trades).trade_id)
    /\ positions # <<>>

\* ---------------------------------------------------------------- C3
\* C3 (attempted at most once), as claimed: over any run, restarts included, the
\* Execution Adapter's buy or sell is invoked at most once for a trade_id.
C3_AttemptedAtMostOnce ==
    \A trade_id \in DOMAIN execCalls : execCalls[trade_id] <= 1

\* ---------------------------------------------------------------- C4
InBatch(trade_id) ==
    \E k \in 1..Len(new_trades) : new_trades[k].trade_id = trade_id

\* C4 (no trade is lost), as claimed: while poll cycles keep running and the
\* store fails only finitely often, a trade that the Tracker has emitted (it
\* appeared in a fetch above the watermark) eventually has a ProcessedTrade marker.
C4_NoTradeLost ==
    <>[][~StoreError]_vars
        => \A trade_id \in 1..MaxBatch :
               InBatch(trade_id) ~> is_trade_processed(processed_trades, trade_id)

\* ---------------------------------------------------------------- C10
\* A poll cycle has run its batch to the end.
CycleDone == pc = "trade" /\ new_trades = <<>>

\* The place of a trade among the calls of the Execution Adapter in this cycle,
\* 0 when it was not called for the trade.
CopiedAt(trade) ==
    LET at == {k \in 1..Len(cycle.copied) : cycle.copied[k].trade = trade}
    IN IF at = {} THEN 0 ELSE CHOOSE k \in at : TRUE

\* The batch of the cycle holds the BUY b and the SELL s of one token, s stamped
\* strictly later, neither processed before, no position for the token when
\* the batch was fetched, and no call of the Execution Adapter for b or s fails.
OpenThenClose(b, s) ==
    /\ b.side = BUY /\ s.side = SELL
    /\ b.token_id = s.token_id
    /\ s.timestamp.t > b.timestamp.t
    /\ {b.trade_id, s.trade_id} \subseteq cycle.fresh
    /\ b.token_id \notin cycle.prior
    /\ \A k \in 1..Len(cycle.copied) :
           cycle.copied[k].trade \in {b, s} => cycle.copied[k].ok

\* The BUY was copied before the SELL, and the ledger holds exactly one
\* position for the token, closed.
OpenedThenClosed(b, s) ==
    /\ CopiedAt(b) # 0
    /\ CopiedAt(b) < CopiedAt(s)
    /\ LET held == {i \in 1..Len(positions) : positions[i].token_id = b.token_id}
       IN /\ Cardinality(held) = 1
          /\ \A i \in held : positions[i].closed_at # None

ExitWithoutPosition ==
    /\ op.name = "record_exit"
    /\ get_position_by_token(op.before.positions, op.trade.token_id) = 0

\* C11 (exit with no position): record_exit for a trade whose token has no open
\* position returns False and leaves the ledger as it was: no position created
\* or modified, no marker written.
C11_ExitWithoutPositionIsNoOp ==
    ExitWithoutPosition
        => /\ ~op.closed
           /\ positions = op.before.positions
           /\ processed_trades = op.before.processed

\* C11's case: record_exit for an unprocessed SELL of a token whose only
\* position is closed, while another token has an open one.
C11_Witness ==
    /\ ExitWithoutPosition
    /\ ~is_trade_processed(op.before.processed, op.trade.trade_id)
    /\ \E i \in 1..Len(positions) :
           positions[i].token_id = op.trade.token_id /\ positions[i].closed_at # None
    /\ \E i \in 1..Len(positions) :
           positions[i].token_id # op.trade.token_id /\ positions[i].closed_at = None

\* ---------------------------------------------------------------- C16
\* x = a / b for fractions, by cross-multiplication.
IsQuotient(x, a, b) == x.n * a.d * b.n = a.n * b.d * x.d

\* C16 (entry sizing): record_entry(trade, usd_amount, entry_price) appends one
\* open position of the trade's token whose amount is usd_amount / entry_price
\* when entry_price > 0 (10 at 0.25 gives 40, 10 at 0.40 gives 25) and 0 when
\* entry_price <= 0, changes no other row, and the trade is marked processed.
C16_EntrySizing ==
    op.name = "record_entry"
        => /\ op.position_id = Len(op.before.positions) + 1
           /\ Len(positions) = op.position_id
           /\ SubSeq(positions, 1, Len(op.before.positions)) = op.before.positions
           /\ LET row == positions[op.position_id]
              IN /\ row.token_id = op.trade.token_id
                 /\ row.closed_at = None
                 /\ row.entry_price = op.entry_price
                 /\ IF op.entry_price.n > 0
                    THEN IsQuotient(row.amount, op.amount, op.entry_price)
                    ELSE row.amount = Zero
                 /\ (op.amount = Ratio(10, 1) /\ op.entry_price = Ratio(1, 4))
                        => row.amount = Ratio(40, 1)
                 /\ (op.amount = Ratio(10, 1) /\ op.entry_price = Ratio(2, 5))
                        => row.amount = Ratio(25, 1)
           /\ is_trade_processed(processed_trades, op.trade.trade_id)

\* C16's case: record_entry at price 0 on a ledger that already holds a
\* position bought at 0.40.
C16_Witness ==
    /\ op.name = "record_entry"
    /\ op.entry_price = Zero
    /\ Len(positions) = 2
    /\ positions[1].amount = Ratio(25, 1)
    /\ positions[2].amount = Zero

\* ---------------------------------------------------------------- C12
MarkersOf(pt, trade_id) == {m \in pt : m.trade_id = trade_id}

\* The per-trade logic, run to its end on any trade without a marker and with
\* either execution outcome, leaves exactly one marker of the trade and every
\* marker that was there; marking a marked trade again changes nothing.
OneMarkerPerTrade ==
    /\ \A trade \in KnownTrades : \A order_ok \in BOOLEAN :
           ~is_trade_processed(processed_trades, trade.trade_id)
               => LET done == per_trade(positions, processed_trades, trade,
                                        order_ok, now)
                  IN /\ Cardinality(MarkersOf(done.processed, trade.trade_id)) = 1
                     /\ processed_trades \subseteq done.processed
    /\ \A m \in processed_trades : \A later \in now..MaxTime :
           mark_trade_processed(processed_trades, m.trade_id, later)
               = processed_trades

\* No step removes a marker or changes its processed_at.
MarkersKept ==
    /\ processed_trades \subseteq processed_trades'
    /\ \A m \in processed_trades' :
           Cardinality(MarkersOf(processed_trades', m.trade_id)) = 1

\* C12 (marker written exactly once per trade): the per-trade logic run to
\* completion on an unprocessed trade leaves exactly one marker for it in every
\* branch, and a marker once written is never removed nor overwritten.
C12_MarkerExactlyOnce == []OneMarkerPerTrade /\ [][MarkersKept]_vars

\* C12's case: the loop holds a re-delivered trade whose marker was written at
\* an earlier clock reading, after a copy that failed.
C12_Witness ==
    /\ pc = "trade"
    /\ new_trades # <<>>
    /\ \E m \in processed_trades :
           /\ m.trade_id = Head(new_trades).trade_id
           /\ m.processed_at.t < now
    /\ positions = <<>>
    /\ execCalls[Head(new_trades).trade_id] = 1

\* ---------------------------------------------------------------- C13
\* The per-trade logic with the Execution Adapter returning no order id, run
\* to its end on a trade without a marker, leaves every position as it was
\* and the trade marked.
FailureChangesNoPosition ==
    \A trade \in KnownTrades :
        ~is_trade_processed(processed_trades, trade.trade_id)
            => LET done == per_trade(positions, processed_trades, trade, FALSE, now)
               IN /\ done.positions = positions
                  /\ is_trade_processed(done.processed, trade.trade_id)

\* The Execution Adapter is not called for a trade that has a marker.
MarkedNotRetried ==
    \A trade_id \in DOMAIN execCalls :
        is_trade_processed(processed_trades, trade_id)
            => execCalls'[trade_id] = execCalls[trade_id]

\* C13 (execution failure changes no position): when the Execution Adapter
\* returns no order id, no position is created (BUY) or modified (SELL), the
\* trade is marked processed, and a marked trade is never attempted again.
C13_FailureChangesNoPosition ==
    []FailureChangesNoPosition /\ [][MarkedNotRetried]_vars

\* C13's case: a SELL whose order failed left the position open and a marker,
\* and the feed delivers it again in a later cycle.
C13_Witness ==
    /\ pc = "trade"
    /\ new_trades # <<>>
    /\ Head(new_trades).side = SELL
    /\ is_trade_processed(processed_trades, Head(new_trades).trade_id)
    /\ execCalls[Head(new_trades).trade_id] = 1
    /\ OpenPositions(Head(new_trades).token_id) # {}
    /\ cycle.copied = <<>>

\* ---------------------------------------------------------------- C14
\* The loop body runs on the trade at the head of the batch.
DecideStep == Decide(TRUE) \/ Decide(FALSE)

\* In a step of the loop body on a SELL: the Execution Adapter is called only
\* when the token has an open position, and then with the amount of an open
\* position of that token; with no open position (and no marker yet) nothing
\* is called and the one write due is the marker.
SellOnlyHeld ==
    LET trade == Head(new_trades)
        held == OpenPositions(trade.token_id)
    IN (DecideStep /\ trade.side = SELL)
           => /\ Len(cycle'.copied) > Len(cycle.copied)
                     => /\ held # {}
                        /\ \E i \in held :
                               cycle'.copied[Len(cycle'.copied)].size
                                   = positions[i].amount
              /\ held = {} => ~Len(cycle'.copied) > Len(cycle.copied)
              /\ (held = {} /\ ~is_trade_processed(processed_trades, trade.trade_id))
                     => pending'.writes = <<MarkProcessed>>

\* C14 (sell only what is held): sell is invoked only for a SELL trade whose
\* token has an open position at that moment, with that position's amount as
\* the size; a SELL with no open position is marked processed with no
\* execution call.
C14_SellOnlyHeld == [][SellOnlyHeld]_vars

\* C14's case: sell has been called with the 40 shares that 10 USDC bought at
\* 0.25, and record_exit is due.
C14_Witness ==
    /\ pc = "ledger"
    /\ pending.trade.side = SELL
    /\ pending.writes = record_exit_writes
    /\ cycle.copied[Len(cycle.copied)].size = Ratio(40, 1)
    /\ OpenPositions(pending.trade.token_id) # {}

\* ---------------------------------------------------------------- C15
\* The trade in flight is the last one the Execution Adapter was called for in
\* this cycle, and it returned an order id.
OrderPlaced(side) ==
    /\ pending.trade.side = side
    /\ cycle.copied # <<>>
    /\ cycle.copied[Len(cycle.copied)].trade = pending.trade
    /\ cycle.copied[Len(cycle.copied)].ok

PositionOpened ==
    /\ Len(positions') = Len(positions) + 1
    /\ SubSeq(positions', 1, Len(positions)) = positions
    /\ positions'[Len(positions')].closed_at = None
    /\ positions'[Len(positions')].token_id = pending.trade.token_id
    /\ OrderPlaced(BUY)

PositionClosed ==
    /\ Len(positions') = Len(positions)
    /\ \E i \in 1..Len(positions) :
           /\ positions[i].closed_at = None
           /\ positions'[i].closed_at # None
           /\ positions' = [positions EXCEPT ![i].closed_at = positions'[i].closed_at]
           /\ positions[i].token_id = pending.trade.token_id
    /\ OrderPlaced(SELL)

\* C15 (position lifecycle): a step changes the positions only by adding one
\* open row, for a BUY the Execution Adapter returned an order id for, or by
\* setting the closed_at of one open row, for such a SELL of that row's token;
\* no row is deleted, reopened or otherwise modified.
C15_PositionLifecycle ==
    [][positions' = positions \/ PositionOpened \/ PositionClosed]_vars

\* C15's case: a position was opened, closed, and after a restart the same
\* token was bought again.
C15_Witness ==
    /\ Len(positions) = 2
    /\ positions[1].closed_at # None
    /\ positions[2].closed_at = None
    /\ positions[2].token_id = positions[1].token_id

\* ---------------------------------------------------------------- C17
\* A cycle whose fetch failed holds no trade and has nothing in flight.
FailedCycleIsEmpty ==
    cycle.failed
        => /\ pc = "trade"
           /\ new_trades = <<>>
           /\ cycle.copied = <<>>
           /\ pending = NoPending

\* The poll that fails, and every step of the cycle it starts, leaves the
\* watermark and the ledger as they were and calls no execution.
FailedCycleFrame ==
    (cycle.failed \/ cycle'.failed)
        => /\ last_seen_timestamp' = last_seen_timestamp
           /\ positions' = positions
           /\ processed_trades' = processed_trades
           /\ execCalls' = execCalls

\* C17 (feed transport failure is a no-op cycle): when the fetch fails,
\* get_new_trades returns the empty sequence, the watermark stays as it was
\* (unset stays unset), the ledger is unchanged, no execution call is made,
\* and the loop goes on to its next cycle.
C17_TransportFailureIsNoOp ==
    /\ []FailedCycleIsEmpty
    /\ [][FailedCycleFrame]_vars
    /\ (cycle.failed ~> pc = "poll")

\* C17's case: the fetch failed with the watermark set, a position open and a
\* record in the feed that the watermark has not passed.
C17_Witness ==
    /\ cycle.failed
    /\ last_seen_timestamp # None
    /\ \E i \in 1..Len(positions) : positions[i].closed_at = None
    /\ \E i \in 1..Len(activity) :
           /\ activity[i].timestamp # Missing
           /\ activity[i].timestamp.t > last_seen_timestamp.t

\* ---------------------------------------------------------------- C18
\* A record with every field present and valid.
WellFormed(item) ==
    /\ item.has_id
    /\ item.side \in TradeSide
    /\ item.timestamp \in DateTimes
    /\ item.price.kind = "number"

\* C18 (parse-error isolation), as claimed: of a fetched batch of TRADE
\* records, every malformed one (a missing or invalid numeric field,
\* identifier, side or timestamp) is dropped, and every well-formed one is
\* parsed and handed to the watermark filter; the batch is never discarded.
C18_ParseErrorIsolation ==
    call.kind = "polled"
        => LET good == {i \in 1..Len(activity) : WellFormed(activity[i])}
           IN /\ call.fetched.ok
              /\ Len(call.fetched.trades) = Cardinality(good)
              /\ \A i \in good :
                     \E k \in 1..Len(call.fetched.trades) :
                         call.fetched.trades[k].trade_id = i

\* ---------------------------------------------------------------- C19
\* main() returns only from the head of the loop, on finding `running` false.
EndsOnlyOnRequest == pc' = "stopped" => (pc \in {"poll", "stopped"} /\ ~running)

\* C19 (the poll loop is never fatal): whatever is raised inside a cycle, the
\* loop comes back to its head for another cycle; it ends only after a
\* shutdown request has been observed there.
C19_LoopNeverFatal ==
    /\ [](pc = "stopped" => ~running)
    /\ [][EndsOnlyOnRequest]_vars
    /\ (pc \in {"trade", "ledger"} ~> pc = "poll")

\* C19's case: a cycle was aborted by a store error after the execution call
\* of a trade, and a later cycle has brought a new batch.
C19_Witness ==
    /\ pc = "trade"
    /\ running
    /\ new_trades # <<>>
    /\ cycle.copied = <<>>
    /\ \E trade_id \in DOMAIN execCalls :
           /\ execCalls[trade_id] = 1
           /\ ~is_trade_processed(processed_trades, trade_id)

\* ---------------------------------------------------------------- C20
\* A request is acted on at the head of the loop only; once it has been made
\* no cycle begins; and its arrival leaves the cycle in progress as it is.
ShutdownAtBoundary ==
    /\ pc' = "stopped" => pc \in {"poll", "stopped"}
    /\ ~running => ~(pc = "poll" /\ pc' = "trade")
    /\ (~running /\ pc = "poll") => execCalls' = execCalls
    /\ (running /\ ~running')
           => UNCHANGED <<pc, new_trades, pending, positions, processed_trades,
                          execCalls>>

\* A cycle that reaches its sleep has processed every trade of its batch.
BatchProcessed ==
    CycleDone
        => \A k \in 1..Len(cycle.batch) :
               is_trade_processed(processed_trades, cycle.batch[k].trade_id)

\* C20 (graceful shutdown): a shutdown request made at any point is acted on
\* at the cycle boundary only: its arrival interrupts nothing, the cycle in
\* progress runs on until every trade of its batch is processed (a store error
\* apart), no cycle begins afterwards, and main() eventually leaves the loop
\* and returns.
C20_GracefulShutdown ==
    /\ [][ShutdownAtBoundary]_vars
    /\ []BatchProcessed
    /\ (~running ~> pc = "stopped")

\* C20's case: the request has arrived while record_entry of one trade is due
\* and another trade of the batch is still waiting.
C20_Witness ==
    /\ ~running
    /\ pc = "ledger"
    /\ pending.writes = record_entry_writes
    /\ new_trades # <<>>

\* ---------------------------------------------------------------- C21
\* The position the last record_entry call created is there.
EntryRecorded ==
    \E i \in (Len(op.before.positions) + 1)..Len(positions) :
        positions[i] = NewPosition(op.trade, op.amount, op.entry_price)

\* The position the last record_exit call found open is closed.
ExitRecorded ==
    positions[get_position_by_token(op.before.positions, op.trade.token_id)]
        .closed_at # None

\* C21: whenever no ledger call is under way (it returned, the store raised
\* between its writes, or the process died between them), the position that
\* record_entry created for a trade exists if and only if the trade's marker
\* exists, and the position that record_exit was to close for a trade is
\* closed if and only if the trade's marker exists.
C21_LedgerAtomicWithMarker ==
    pc # "ledger" =>
        /\ op.name = "record_entry" =>
               (EntryRecorded
                    <=> is_trade_processed(processed_trades, op.trade.trade_id))
        /\ op.name = "record_exit" =>
               (ExitRecorded
                    <=> is_trade_processed(processed_trades, op.trade.trade_id))

\* ---------------------------------------------------------------- C22
\* The fetch of the last get_new_trades call gave no parsed trade: it failed,
\* or it answered with nothing that parses.
NoParsedTrade == ~call.fetched.ok \/ call.fetched.trades = <<>>

\* C22 (cold start), as claimed: a get_new_trades call that begins with the
\* watermark unset emits no trade, and leaves the watermark unset exactly when
\* its fetch gave no parsed trade; so the Tracker stays cold, emitting nothing,
\* up to and including the first call whose fetch returns a trade.
C22_ColdUntilFirstTrade ==
    PolledCold
        => /\ call.ret = <<>>
           /\ (last_seen_timestamp = None <=> NoParsedTrade)

\* ---------------------------------------------------------------- C23
\* C23 (no re-emission), as claimed: no get_new_trades call of a Tracker
\* returns a feed record that an earlier call of the same Tracker returned,
\* however often the feed delivers the record again.
C23_NeverEmittedTwice ==
    call.kind = "polled" => TradeIds(call.ret) \cap call.emitted = {}

====
